---- MODULE Spec2Model ----
(***************************************************************************)
(* Model of dbmeter: the JACK bridge of src/src/jack.rs (JackState,        *)
(* JackHandler, JackInterface) and the lock-free meters of                 *)
(* src/src/meters.rs.                                                      *)
(*                                                                         *)
(* The bridge is modelled at the granularity of its atomic accesses: every *)
(* load and store of alive / next_time is one step of the thread that      *)
(* performs it, so that callbacks delivered on different JACK threads      *)
(* interleave as they can in the program.  Both atomics are single         *)
(* locations, so their modification order is a total order and a shared    *)
(* variable models them; the claims checked here do not rest on the        *)
(* Acquire/Release pairing between different locations.                    *)
(*                                                                         *)
(* Diagnostics (print!/println!/eprintln!) are treated as having no effect *)
(* on the modelled state.                                                  *)
(***************************************************************************)
EXTENDS Integers, Sequences, FiniteSets, TLC

(***************************************************************************)
(* Bounds of the model.                                                    *)
(***************************************************************************)
\* largest JACK clock value (microseconds) a cycle may end at
MaxTime == 4
\* the value of jack::get_time() read by JackInterface::new
StartTime == 1
\* largest sample magnitude, in tenths of full scale
MaxAmp == 3
\* largest number of frames in one JACK buffer
MaxFrames == 1
\* largest number of samples in one batch given to a meter
MaxBatch == 2
\* largest argument tried for buffer_size / sample_rate
MaxFramesArg == 1
\* number of meter calls made by the thread whose calls are counted
MaxCalls == 2

(***************************************************************************)
(* Values.                                                                 *)
(***************************************************************************)
\* jack::Control
Continue == "Continue"
Quit == "Quit"
Control == {Continue, Quit}

\* Err(_) of panic::catch_unwind
Panic == "Panic"

\* f32 samples: multiples of a tenth of full scale, and NaN
Num(x) == [nan |-> FALSE, v |-> x]
NaN == [nan |-> TRUE, v |-> 0]
Sample == {Num(x) : x \in -MaxAmp..MaxAmp} \cup {NaN}

\* a buffer of samples, as Port::as_slice hands it out
Buffers == UNION {[1..n -> Sample] : n \in 0..MaxFrames}

\* the data of one integrate call
Batches == UNION {[1..n -> Sample] : n \in 0..MaxBatch}

\* Decibel: 20 * log10(x) of a magnitude x in tenths of full scale, in
\* hundredths of a dB; log10(0) is minus infinity
NegInf == [neg_inf |-> TRUE, cdb |-> 0]
Log10Table == <<-2000, -1398, -1046, -796, -602, -444, -310, -194, -92, 0>>
decibel(x) == IF x = 0 THEN NegInf
                       ELSE [neg_inf |-> FALSE, cdb |-> Log10Table[x]]

\* jack::CycleTimes, as ProcessScope::cycle_times returns it; Err when the
\* JACK library does not support cycle timing
NoCycleTimes ==
    [ok |-> FALSE, current_usecs |-> 0, next_usecs |-> 0, period_usecs |-> 0]
CycleTimes(cur, period) ==
    [ok |-> TRUE, current_usecs |-> cur, next_usecs |-> cur + period,
     period_usecs |-> period]

\* the threads JACK calls us from, and the callbacks each one delivers
RT == "rt"
NOTIF == "notif"
HostThreads == {RT, NOTIF}

\* the threads that use a meter
MeterThreads == {"m1", "m2"}

NoCallback == "none"
NoArg == "none"
\* no cycle in flight
NoScope == [times |-> NoCycleTimes]

\* f32 1.0 in the unit the decay weight is counted in: 2^-24, the spacing
\* of the f32 values of [0.5, 1]
F32One == 16777216

\* the sampling rates (Hz) tried for VUMeter::new and update_sampling_rate:
\* the smallest positive u32, a rate whose weight is about one half, the
\* usual JACK rate, and a rate of the upper part of the u32 range
Rates == {1, 22, 48000, 1000000000}

\* VUMeter::vu_weight, lines 108-112: (-dt/tau).exp() with
\* tau = -0.3 / ln(0.01) = 0.06514417 and dt = 1.0 / sampling_rate, every
\* operation rounded to f32, the result in units of 2^-24 (rounded to the
\* nearest unit at rate 1, where the f32 result 2.1544356e-7 is finer than
\* the unit).  At rate 1000000000, -dt/tau = -1.5350575e-8 and
\* exp(-dt/tau) = 0.99999998465 lies closer to 1.0 than to the f32 just
\* below it, 1 - 2^-24 = 0.99999994: the f32 result is 1.0.
vu_weight_of(sampling_rate) ==
    CASE sampling_rate = 1 -> 4
      [] sampling_rate = 22 -> 8350060
      [] sampling_rate = 48000 -> 16771851
      [] sampling_rate = 1000000000 -> 16777216

\* the Decibel value of a NaN level
NaNdB == [neg_inf |-> FALSE, nan |-> TRUE]

VARIABLES
    alive,        \* JackState::alive
    next_time,    \* JackState::next_time
    pc,           \* per host thread: position inside callback_guard
    cb,           \* per host thread: the callback being delivered
    scope,        \* the ProcessScope of the cycle in flight
    input,        \* the cycle's buffer, once fetched from input_port
    ran,          \* per host thread: times the closure ran in this invocation
    result,       \* per host thread: what catch_unwind returned
    output,       \* per host thread: what callback_guard returned
    hostClock,    \* JACK's clock: end of the last cycle handed to process
    debugBuild,   \* whether debug assertions are compiled in
    ctlpc,        \* control thread: position inside JackInterface::next_time
    obsAlive,     \* control thread: <<last value returned by is_alive()>>
    polled,       \* control thread: its last call was is_alive() and gave true
    obsTime,      \* control thread: <<last value returned by next_time()>>
    peak_sample,  \* SamplePeakMeter::peak_sample
    mpc,          \* per meter thread: position inside integrate
    max,          \* per meter thread: integrate's local `max`
    old_max,      \* per meter thread: integrate's local `old_max`
    ret,          \* per meter thread: <<value read_and_reset returned>>
    fedMax,       \* largest magnitude handed to integrate since the last reset
    readsInRow,   \* read_and_reset calls since the last integrate, up to 2
    vu_sample,    \* VUMeter::vu_sample
    vu_weight,    \* VUMeter::vu_weight, in units of 2^-24
    data_iter,    \* per meter thread: VUMeter::integrate's `data_iter`
    old_vu,       \* per meter thread: VUMeter::integrate's local `old_vu`
    weight,       \* per meter thread: VUMeter::integrate's local `vu_weight`
    fedNonZero,   \* whether VUMeter::integrate was ever given a sample # 0.0
    calls,        \* calls started so far by the thread whose calls are counted
    contended,    \* the meter the threads of LiveSpec call: "peak" or "vu"
    fedAll,       \* largest magnitude handed to the peak meter's integrate, ever
    readMax       \* highest level read_and_reset has returned, ever

hostVars == <<pc, cb, scope, input, ran, result, output, hostClock>>
ctlVars == <<debugBuild, ctlpc, obsAlive, polled, obsTime>>
bridgeVars == <<alive, next_time, hostVars, ctlVars>>
vuVars == <<vu_sample, vu_weight, data_iter, old_vu, weight, fedNonZero>>
liveVars == <<calls, contended>>
lossVars == <<fedAll, readMax>>
bookVars == <<liveVars, lossVars>>
meterVars ==
    <<peak_sample, mpc, max, old_max, ret, fedMax, readsInRow, vuVars,
      bookVars>>
vars == <<bridgeVars, meterVars>>

NotYet == "none"

(***************************************************************************)
(* JackHandler: the pure parts.                                            *)
(***************************************************************************)
\* JackHandler::is_alive: the value the Relaxed load returns
is_alive(a) == a

\* JackHandler::mark_dead: the value the Relaxed store writes
mark_dead == FALSE

\* mutant: the cycle's length is stored instead of its end
update_time_stores_period(ct) == ct.period_usecs

\* JackHandler::update_time: the value stored, when cycle_times() is Ok
update_time_value(ct) == ct.next_usecs

\* mutant: the liveness check is missing
guard_enters_unchecked(a) == TRUE

\* callback_guard, line 181: whether the closure is entered
guard_enters(a) == is_alive(a)

\* mutant: a panic is swallowed and the callback goes on
unwrap_or_continue(r) == IF r = Panic THEN "Continue" ELSE r

\* callback_guard, line 185: result.unwrap_or(Control::Quit)
unwrap_or_quit(r) == IF r = Panic THEN Quit ELSE r

\* mutant: line 186 is missing, Quit is returned without mark_dead
mark_dead_skipped(a, out) == a

\* mutant: the flag is stored on every exit, not only on Quit
alive_stored_every_exit(a, out) == (out # "Quit")

\* callback_guard, line 186: alive after `if output == Quit { mark_dead() }`
alive_after_guard(a, out) == IF out = Quit THEN mark_dead ELSE a

\* mutant: shutdown lets the client go on
shutdown_continues(c, a) ==
    IF c \in {"buffer_size", "sample_rate"} THEN "Panic" ELSE "Continue"

\* mutant: the reconfiguration hooks accept the change
reconfiguration_accepted(c, a) ==
    IF c = "shutdown" THEN "Quit" ELSE "Continue"

\* mutant: an xrun is fatal
xrun_is_fatal(c, a) ==
    CASE c \in {"thread_init", "freewheel"}   -> "Continue"
      [] c \in {"shutdown", "xrun"}           -> "Quit"
      [] c \in {"buffer_size", "sample_rate"} -> "Panic"

\* what each notification closure evaluates to: a Control, or a panic
notification_body(c, a) ==
    CASE c = "thread_init" -> Continue
      [] c = "shutdown"    -> Quit
      [] c = "freewheel"   -> Continue
      [] c = "buffer_size" -> Panic      \* unimplemented!()
      [] c = "sample_rate" -> Panic      \* unimplemented!()
      [] c = "xrun"        -> Continue

(***************************************************************************)
(* JackInterface::new                                                      *)
(***************************************************************************)
BridgeInit ==
    /\ alive = TRUE
    /\ next_time = StartTime
    /\ hostClock = StartTime
    /\ pc = [t \in HostThreads |-> "idle"]
    /\ cb = [t \in HostThreads |-> NoCallback]
    /\ scope = NoScope
    /\ input = <<>>
    /\ ran = [t \in HostThreads |-> 0]
    /\ result = [t \in HostThreads |-> NotYet]
    /\ output = [t \in HostThreads |-> NotYet]
    /\ debugBuild \in BOOLEAN
    /\ ctlpc = "idle"
    /\ obsAlive = <<>>
    /\ polled = FALSE
    /\ obsTime = <<>>

\* SamplePeakMeter::new
PeakInit ==
    /\ peak_sample = 0
    /\ mpc = [t \in MeterThreads |-> "idle"]
    /\ max = [t \in MeterThreads |-> 0]
    /\ old_max = [t \in MeterThreads |-> 0]
    /\ ret = [t \in MeterThreads |-> <<>>]
    /\ fedMax = 0
    /\ readsInRow = 0
    /\ fedAll = 0
    /\ readMax = NegInf

\* VUMeter::new, line 80: Atomic::new(0.0)
vu_initial == Num(0)

\* VUMeter::new
VUMeter_new(sampling_rate) ==
    /\ vu_sample = vu_initial
    /\ vu_weight = vu_weight_of(sampling_rate)
    /\ data_iter = [t \in MeterThreads |-> <<>>]
    /\ old_vu = [t \in MeterThreads |-> Num(0)]
    /\ weight = [t \in MeterThreads |-> 0]
    /\ fedNonZero = FALSE

\* The bridge, with meters it never feeds: the loudness meter is built for
\* the usual JACK rate.
Init ==
    /\ BridgeInit
    /\ PeakInit
    /\ VUMeter_new(48000)
    /\ calls = 0
    /\ contended = "peak"

\* The meters, with a loudness meter built for any of the rates.
MeterInit ==
    /\ BridgeInit
    /\ PeakInit
    /\ \E sampling_rate \in Rates : VUMeter_new(sampling_rate)
    /\ calls = 0
    /\ contended = "vu"

(***************************************************************************)
(* callback_guard                                                          *)
(*                                                                         *)
(* A thread inside callback_guard is at "body" (liveness check passed, the *)
(* closure of process about to run), at "fetched" (that closure between    *)
(* as_slice and update_time), at "caught" (catch_unwind has returned) or   *)
(* at "done" (callback_guard has returned `output` to JACK).               *)
(***************************************************************************)
\* Line 181, the liveness check, on thread t for callback c; `entered` is
\* where the thread is once the check has passed.
callback_guard_enter(t, c, entered) ==
    /\ pc[t] = "idle"
    /\ cb' = [cb EXCEPT ![t] = c]
    /\ IF guard_enters(alive)
       THEN /\ pc' = [pc EXCEPT ![t] = entered]
            /\ output' = [output EXCEPT ![t] = NotYet]
       ELSE /\ pc' = [pc EXCEPT ![t] = "done"]
            /\ output' = [output EXCEPT ![t] = Quit]
    /\ UNCHANGED <<alive, next_time, ctlVars>>

\* Lines 185-187: unwrap_or, mark_dead on Quit, return.
callback_guard_exit(t) ==
    /\ pc[t] = "caught"
    /\ LET out == unwrap_or_quit(result[t]) IN
         /\ output' = [output EXCEPT ![t] = out]
         /\ alive' = alive_after_guard(alive, out)
    /\ pc' = [pc EXCEPT ![t] = "done"]
    /\ UNCHANGED <<next_time, cb, scope, input, ran, result,
                   hostClock, ctlVars>>
    /\ UNCHANGED meterVars

\* The callback returns to JACK.
host_return(t) ==
    /\ pc[t] = "done"
    /\ pc' = [pc EXCEPT ![t] = "idle"]
    /\ cb' = [cb EXCEPT ![t] = NoCallback]
    /\ ran' = [ran EXCEPT ![t] = 0]
    /\ result' = [result EXCEPT ![t] = NotYet]
    /\ output' = [output EXCEPT ![t] = NotYet]
    /\ scope' = IF t = RT THEN NoScope ELSE scope
    /\ UNCHANGED input
    /\ UNCHANGED <<alive, next_time, hostClock, ctlVars>>
    /\ UNCHANGED meterVars

(***************************************************************************)
(* ProcessHandler::process                                                 *)
(***************************************************************************)
\* JACK starts a cycle on the audio thread.  Cycles are sequential and their
\* times do not go back: a cycle starts where the previous one ended (the
\* first one at the clock value read at construction) and lasts a positive
\* period.  cycle_times() may fail.
process ==
    /\ \E period \in 1..(MaxTime - hostClock), timed \in BOOLEAN :
         /\ scope' = [times |-> IF timed THEN CycleTimes(hostClock, period)
                                         ELSE NoCycleTimes]
         /\ hostClock' = hostClock + period
    /\ callback_guard_enter(RT, "process", "body")
    /\ UNCHANGED <<input, ran, result>>
    /\ UNCHANGED meterVars

\* mutant: the closure of process updates the clock first, before it
\* fetches and handles the buffer
process_fetch_stamps_first ==
    /\ pc[RT] = "body"
    /\ cb[RT] = "process"
    /\ \E buf \in Buffers : input' = buf
    /\ ran' = [ran EXCEPT ![RT] = ran[RT] + 1]
    /\ pc' = [pc EXCEPT ![RT] = "fetched"]
    /\ next_time' = IF scope.times.ok THEN update_time_value(scope.times)
                                      ELSE next_time
    /\ UNCHANGED <<alive, cb, scope, result, output, hostClock, ctlVars>>
    /\ UNCHANGED meterVars

\* The closure of process, line 196: input_port.as_slice(scope).
process_fetch ==
    /\ pc[RT] = "body"
    /\ cb[RT] = "process"
    /\ \E buf \in Buffers : input' = buf
    /\ ran' = [ran EXCEPT ![RT] = ran[RT] + 1]
    /\ pc' = [pc EXCEPT ![RT] = "fetched"]
    /\ UNCHANGED <<alive, next_time, cb, scope, result, output, hostClock,
                   ctlVars>>
    /\ UNCHANGED meterVars

\* The closure of process, lines 199-203: drop(input), update_time(scope),
\* which panics when cycle_times() failed, and Control::Continue.
process_stamp ==
    /\ pc[RT] = "fetched"
    /\ input' = <<>>
    /\ IF scope.times.ok
       THEN /\ next_time' = update_time_value(scope.times)
            /\ result' = [result EXCEPT ![RT] = Continue]
       ELSE /\ result' = [result EXCEPT ![RT] = Panic]
            /\ UNCHANGED next_time
    /\ pc' = [pc EXCEPT ![RT] = "caught"]
    /\ UNCHANGED <<alive, cb, scope, ran, output, hostClock, ctlVars>>
    /\ UNCHANGED meterVars

(***************************************************************************)
(* NotificationHandler                                                     *)
(***************************************************************************)
\* A notification callback c(a) delivered on thread t: the liveness check
\* of callback_guard and, when it passes, the closure, which reads and
\* writes no shared state, up to the return of catch_unwind.
notify(t, c, a) ==
    /\ callback_guard_enter(t, c, "caught")
    /\ IF guard_enters(alive)
       THEN /\ ran' = [ran EXCEPT ![t] = ran[t] + 1]
            /\ result' = [result EXCEPT ![t] = notification_body(c, a)]
       ELSE UNCHANGED <<ran, result>>
    /\ UNCHANGED <<scope, input, hostClock>>
    /\ UNCHANGED meterVars

\* thread_init is delivered on the audio thread it announces.
thread_init ==
    /\ pc[RT] = "idle"
    /\ notify(RT, "thread_init", NoArg)

shutdown ==
    /\ pc[NOTIF] = "idle"
    /\ notify(NOTIF, "shutdown", NoArg)

freewheel ==
    /\ pc[NOTIF] = "idle"
    /\ \E is_freewheel_enabled \in BOOLEAN :
         notify(NOTIF, "freewheel", is_freewheel_enabled)

buffer_size ==
    /\ pc[NOTIF] = "idle"
    /\ \E size \in 0..MaxFramesArg : notify(NOTIF, "buffer_size", size)

sample_rate ==
    /\ pc[NOTIF] = "idle"
    /\ \E srate \in 0..MaxFramesArg : notify(NOTIF, "sample_rate", srate)

xrun ==
    /\ pc[NOTIF] = "idle"
    /\ notify(NOTIF, "xrun", NoArg)

(***************************************************************************)
(* JackInterface: the control thread                                       *)
(***************************************************************************)
\* mutant: is_alive() consumes the flag (a swap instead of a load)
interface_is_alive_swaps ==
    /\ ctlpc = "idle"
    /\ obsAlive' = <<is_alive(alive)>>
    /\ polled' = is_alive(alive)
    /\ alive' = FALSE
    /\ UNCHANGED <<next_time, hostVars, debugBuild, ctlpc, obsTime>>
    /\ UNCHANGED meterVars

\* JackInterface::is_alive
interface_is_alive ==
    /\ ctlpc = "idle"
    /\ obsAlive' = <<is_alive(alive)>>
    /\ polled' = is_alive(alive)
    /\ UNCHANGED <<alive, next_time, hostVars, debugBuild, ctlpc,
                   obsTime>>
    /\ UNCHANGED meterVars

\* JackInterface::next_time, line 136: debug_assert!(self.is_alive())
interface_next_time_assert ==
    /\ ctlpc = "idle"
    /\ ctlpc' = IF debugBuild /\ ~is_alive(alive) THEN "panicked" ELSE "load"
    /\ polled' = FALSE
    /\ UNCHANGED <<alive, next_time, hostVars, debugBuild, obsAlive,
                   obsTime>>
    /\ UNCHANGED meterVars

\* JackInterface::next_time, line 137: the Acquire load
interface_next_time_load ==
    /\ ctlpc = "load"
    /\ obsTime' = <<next_time>>
    /\ ctlpc' = "idle"
    /\ UNCHANGED <<alive, next_time, hostVars, debugBuild, obsAlive, polled>>
    /\ UNCHANGED meterVars

Next ==
    \/ process
    \/ process_fetch
    \/ process_stamp
    \/ thread_init
    \/ shutdown
    \/ freewheel
    \/ buffer_size
    \/ sample_rate
    \/ xrun
    \/ \E t \in HostThreads : callback_guard_exit(t)
    \/ \E t \in HostThreads : host_return(t)
    \/ interface_is_alive
    \/ interface_next_time_assert
    \/ interface_next_time_load

Spec == Init /\ [][Next]_vars

(***************************************************************************)
(* SamplePeakMeter                                                         *)
(***************************************************************************)
\* mutant: the samples are not rectified
abs_missing(s) == s

\* f32::abs
abs(s) == IF s.nan THEN NaN ELSE Num(IF s.v < 0 THEN -s.v ELSE s.v)

\* f32::max of a number x and a sample y: the other one when one is NaN
f32_max(x, y) == IF y.nan THEN x ELSE IF y.v > x THEN y.v ELSE x

\* integrate, lines 31-33: data.map(abs).fold(0.0, max)
RECURSIVE fold_max(_, _)
fold_max(acc, data) ==
    IF data = <<>> THEN acc
                   ELSE fold_max(f32_max(acc, abs(Head(data))), Tail(data))

batch_max(data) == fold_max(0, data)

\* the largest element of a non-empty set of numbers
SetMax(S) == CHOOSE m \in S : \A x \in S : m >= x

\* the magnitudes of the numeric samples of a batch
Magnitudes(data) ==
    {IF data[i].v < 0 THEN -data[i].v ELSE data[i].v :
        i \in {j \in DOMAIN data : ~data[j].nan}}

\* integrate, lines 31-34: the batch maximum of a batch of `batches`, then
\* the first load of peak_sample
integrate(t, batches) ==
    /\ mpc[t] = "idle"
    /\ \E data \in batches :
         /\ max' = [max EXCEPT ![t] = batch_max(data)]
         /\ fedMax' = SetMax({fedMax} \cup Magnitudes(data))
    /\ old_max' = [old_max EXCEPT ![t] = peak_sample]
    /\ mpc' = [mpc EXCEPT ![t] = "loop"]
    /\ ret' = [ret EXCEPT ![t] = <<>>]
    /\ readsInRow' = 0
    /\ UNCHANGED peak_sample
    /\ UNCHANGED <<bridgeVars, vuVars>>

\* mutant: on a failed compare_exchange the call gives up instead of
\* retrying with the value it found
integrate_loop_gives_up(t) ==
    /\ mpc[t] = "loop"
    /\ IF max[t] > old_max[t] /\ peak_sample = old_max[t]
       THEN peak_sample' = max[t]
       ELSE UNCHANGED peak_sample
    /\ mpc' = [mpc EXCEPT ![t] = "idle"]
    /\ UNCHANGED <<max, old_max, ret, fedMax, readsInRow>>
    /\ UNCHANGED <<bridgeVars, vuVars>>

\* integrate, lines 35-43: one turn of the compare-and-swap loop
integrate_loop(t) ==
    /\ mpc[t] = "loop"
    /\ IF max[t] > old_max[t]
       THEN IF peak_sample = old_max[t]
            THEN \* Ok(_) => return
                 /\ peak_sample' = max[t]
                 /\ mpc' = [mpc EXCEPT ![t] = "idle"]
                 /\ UNCHANGED old_max
            ELSE \* Err(new_old_max) => old_max = new_old_max
                 /\ old_max' = [old_max EXCEPT ![t] = peak_sample]
                 /\ UNCHANGED <<peak_sample, mpc>>
       ELSE /\ mpc' = [mpc EXCEPT ![t] = "idle"]
            /\ UNCHANGED <<peak_sample, old_max>>
    /\ UNCHANGED <<max, ret, fedMax, readsInRow>>
    /\ UNCHANGED <<bridgeVars, vuVars>>

\* mutant: the peak is cleared with a store and read back afterwards
read_and_reset_stores(t) ==
    /\ mpc[t] = "idle"
    /\ ret' = [ret EXCEPT ![t] = <<decibel(0)>>]
    /\ peak_sample' = 0
    /\ fedMax' = 0
    /\ readsInRow' = IF readsInRow < 2 THEN readsInRow + 1 ELSE readsInRow
    /\ UNCHANGED <<mpc, max, old_max>>
    /\ UNCHANGED <<bridgeVars, vuVars>>

\* read_and_reset, lines 48-50: swap(0.) and the conversion to dBFS
read_and_reset(t) ==
    /\ mpc[t] = "idle"
    /\ ret' = [ret EXCEPT ![t] = <<decibel(peak_sample)>>]
    /\ peak_sample' = 0
    /\ fedMax' = 0
    /\ readsInRow' = IF readsInRow < 2 THEN readsInRow + 1 ELSE readsInRow
    /\ UNCHANGED <<mpc, max, old_max>>
    /\ UNCHANGED <<bridgeVars, vuVars>>

\* One thread uses the meter: calls are made one after the other.
PeakSeqNext ==
    \/ integrate("m1", Batches) /\ UNCHANGED bookVars
    \/ integrate_loop("m1") /\ UNCHANGED bookVars
    \/ read_and_reset("m1") /\ UNCHANGED bookVars

PeakSeqSpec == Init /\ [][PeakSeqNext]_vars

\* The batches of the threads that race on a meter: their samples are a
\* positive and a larger negative one (the batch maxima are 0, 1 and 2).
RaceSample == {Num(1), Num(-2)}
RaceBatches == UNION {[1..n -> RaceSample] : n \in 0..MaxBatch}

\* Several threads integrate into the same peak meter; nobody resets it.
PeakRaceNext ==
    \/ \E t \in MeterThreads : integrate(t, RaceBatches) /\ UNCHANGED bookVars
    \/ \E t \in MeterThreads : integrate_loop(t) /\ UNCHANGED bookVars

PeakRaceSpec == Init /\ [][PeakRaceNext]_vars

\* the higher of two Decibel levels
DbMax(a, b) ==
    IF a.neg_inf THEN b
    ELSE IF b.neg_inf THEN a
    ELSE IF a.cdb >= b.cdb THEN a ELSE b

\* Several threads integrate into and reset the same peak meter; fedAll
\* and readMax record what was fed and what was read back.
PeakNext ==
    \/ \E t \in MeterThreads :
         /\ integrate(t, RaceBatches)
         /\ fedAll' = SetMax({fedAll, fedMax'})
         /\ UNCHANGED <<readMax, liveVars>>
    \/ \E t \in MeterThreads : integrate_loop(t) /\ UNCHANGED bookVars
    \/ \E t \in MeterThreads :
         /\ read_and_reset(t)
         /\ readMax' = DbMax(readMax, Head(ret'[t]))
         /\ UNCHANGED <<fedAll, liveVars>>

PeakSpec == Init /\ [][PeakNext]_vars

(***************************************************************************)
(* VUMeter                                                                 *)
(*                                                                         *)
(* Levels are f32 in the program; here they are multiples of a tenth of    *)
(* full scale (and NaN), and every f32 operation of the fold rounds its    *)
(* exact result to the nearest multiple, ties away from zero.              *)
(***************************************************************************)
\* std::f32::consts::PI / 2.0, line 126
AMPLITUDE_CORRECTION == [num |-> 15708, den |-> 10000]

\* n / d (d > 0) rounded to the nearest integer
round_div(n, d) ==
    IF n >= 0 THEN (2 * n + d) \div (2 * d)
              ELSE -((2 * (-n) + d) \div (2 * d))

\* mutant: the correction is added to the magnitude, not multiplied
corrected_adds(spl) ==
    LET a == abs(spl) IN
    IF a.nan THEN NaN
             ELSE Num(a.v + round_div(AMPLITUDE_CORRECTION.num,
                                      AMPLITUDE_CORRECTION.den))

\* line 134: spl.abs() * AMPLITUDE_CORRECTION
corrected(spl) ==
    LET a == abs(spl) IN
    IF a.nan THEN NaN
             ELSE Num(round_div(a.v * AMPLITUDE_CORRECTION.num,
                                AMPLITUDE_CORRECTION.den))

\* line 136, the closure of the fold: spl + (vu - spl) * vu_weight, on the
\* level vu and the corrected sample spl, with weight w in units of 2^-24
fold_step(vu, spl, w) ==
    IF vu.nan \/ spl.nan
    THEN NaN
    ELSE Num(spl.v + round_div((vu.v - spl.v) * w, F32One))

\* lines 132-137: data_iter.clone().map(..).fold(old_vu, ..)
RECURSIVE vu_fold(_, _, _)
vu_fold(vu, data, w) ==
    IF data = <<>> THEN vu
                   ELSE vu_fold(fold_step(vu, corrected(Head(data)), w),
                                Tail(data), w)

\* Decibel of a level: 20 * log10, NaN for a NaN level
vu_decibel(s) == IF s.nan THEN NaNdB ELSE decibel(s.v)

\* integrate, lines 127-128: the iterator over `data`, then the first load
\* of vu_sample
vu_integrate(t, batches) ==
    /\ mpc[t] = "idle"
    /\ \E data \in batches :
         /\ data_iter' = [data_iter EXCEPT ![t] = data]
         /\ fedNonZero' =
              (fedNonZero \/ \E i \in DOMAIN data : data[i] # Num(0))
    /\ old_vu' = [old_vu EXCEPT ![t] = vu_sample]
    /\ mpc' = [mpc EXCEPT ![t] = "vu_loop"]
    /\ ret' = [ret EXCEPT ![t] = <<>>]
    /\ UNCHANGED <<vu_sample, vu_weight, weight>>
    /\ UNCHANGED <<peak_sample, max, old_max, fedMax, readsInRow>>
    /\ UNCHANGED bridgeVars

\* integrate, lines 130-131: the load of vu_weight at the top of the loop
vu_integrate_load(t) ==
    /\ mpc[t] = "vu_loop"
    /\ weight' = [weight EXCEPT ![t] = vu_weight]
    /\ mpc' = [mpc EXCEPT ![t] = "vu_cas"]
    /\ UNCHANGED <<vu_sample, vu_weight, data_iter, old_vu, fedNonZero>>
    /\ UNCHANGED <<peak_sample, max, old_max, ret, fedMax, readsInRow>>
    /\ UNCHANGED bridgeVars

\* mutant: the new level is stored without checking that vu_sample still
\* holds the level the fold started from
vu_integrate_stores(t) ==
    /\ mpc[t] = "vu_cas"
    /\ vu_sample' = vu_fold(old_vu[t], data_iter[t], weight[t])
    /\ mpc' = [mpc EXCEPT ![t] = "idle"]
    /\ UNCHANGED <<vu_weight, data_iter, old_vu, weight, fedNonZero>>
    /\ UNCHANGED <<peak_sample, max, old_max, ret, fedMax, readsInRow>>
    /\ UNCHANGED bridgeVars

\* mutant: a failed compare_exchange retries with the level it had, not
\* with the level it found
vu_integrate_cas_keeps_old(t) ==
    /\ mpc[t] = "vu_cas"
    /\ IF vu_sample = old_vu[t]
       THEN /\ vu_sample' = vu_fold(old_vu[t], data_iter[t], weight[t])
            /\ mpc' = [mpc EXCEPT ![t] = "idle"]
       ELSE /\ mpc' = [mpc EXCEPT ![t] = "vu_loop"]
            /\ UNCHANGED vu_sample
    /\ UNCHANGED <<vu_weight, data_iter, old_vu, weight, fedNonZero>>
    /\ UNCHANGED <<peak_sample, max, old_max, ret, fedMax, readsInRow>>
    /\ UNCHANGED bridgeVars

\* integrate, lines 132-144: the fold over the whole batch, then the
\* compare_exchange and its two outcomes
vu_integrate_cas(t) ==
    /\ mpc[t] = "vu_cas"
    /\ LET new_vu == vu_fold(old_vu[t], data_iter[t], weight[t]) IN
       IF vu_sample = old_vu[t]
       THEN \* Ok(_) => return
            /\ vu_sample' = new_vu
            /\ mpc' = [mpc EXCEPT ![t] = "idle"]
            /\ UNCHANGED old_vu
       ELSE \* Err(new_old_vu) => old_vu = new_old_vu
            /\ old_vu' = [old_vu EXCEPT ![t] = vu_sample]
            /\ mpc' = [mpc EXCEPT ![t] = "vu_loop"]
            /\ UNCHANGED vu_sample
    /\ UNCHANGED <<vu_weight, data_iter, weight, fedNonZero>>
    /\ UNCHANGED <<peak_sample, max, old_max, ret, fedMax, readsInRow>>
    /\ UNCHANGED bridgeVars

\* mutant: the level is cleared when the sampling rate changes
update_sampling_rate_clears(sampling_rate) ==
    /\ vu_weight' = vu_weight_of(sampling_rate)
    /\ vu_sample' = Num(0)
    /\ UNCHANGED <<data_iter, old_vu, weight, fedNonZero>>
    /\ UNCHANGED <<peak_sample, mpc, max, old_max, ret, fedMax, readsInRow>>
    /\ UNCHANGED bridgeVars

\* update_sampling_rate, lines 117-119, called from any thread
update_sampling_rate(sampling_rate) ==
    /\ vu_weight' = vu_weight_of(sampling_rate)
    /\ UNCHANGED <<vu_sample, data_iter, old_vu, weight, fedNonZero>>
    /\ UNCHANGED <<peak_sample, mpc, max, old_max, ret, fedMax, readsInRow>>
    /\ UNCHANGED bridgeVars

\* read, lines 149-151
read(t) ==
    /\ mpc[t] = "idle"
    /\ ret' = [ret EXCEPT ![t] = <<vu_decibel(vu_sample)>>]
    /\ UNCHANGED vuVars
    /\ UNCHANGED <<peak_sample, mpc, max, old_max, fedMax, readsInRow>>
    /\ UNCHANGED bridgeVars

\* The batches fed to the loudness meter by a single thread: silence, a
\* positive and a negative sample, and NaN.
VuSample == {Num(0), Num(1), Num(-2), NaN}
VuBatches == UNION {[1..n -> VuSample] : n \in 0..MaxBatch}

\* One thread feeds and reads the loudness meter while the sampling rate is
\* updated from elsewhere.
VuNext ==
    \/ vu_integrate("m1", VuBatches) /\ UNCHANGED bookVars
    \/ vu_integrate_load("m1") /\ UNCHANGED bookVars
    \/ vu_integrate_cas("m1") /\ UNCHANGED bookVars
    \/ read("m1") /\ UNCHANGED bookVars
    \/ \E r \in Rates : update_sampling_rate(r) /\ UNCHANGED bookVars

VuSpec == MeterInit /\ [][VuNext]_vars

\* Several threads feed the loudness meter.
VuRaceNext ==
    \/ \E t \in MeterThreads : vu_integrate(t, RaceBatches) /\ UNCHANGED bookVars
    \/ \E t \in MeterThreads : vu_integrate_load(t) /\ UNCHANGED bookVars
    \/ \E t \in MeterThreads : vu_integrate_cas(t) /\ UNCHANGED bookVars

VuRaceSpec == MeterInit /\ [][VuRaceNext]_vars

(***************************************************************************)
(* Two threads on one meter, fair scheduling.                              *)
(*                                                                         *)
(* The two meters share no state, so the threads contend on one of them:   *)
(* the peak meter (integrate and read_and_reset) or the loudness meter     *)
(* (integrate, built for a rate at which the level follows the samples).   *)
(* m1 calls the meter for ever; m2 makes at most MaxCalls calls.  A thread *)
(* that is inside a call is scheduled again (weak fairness on its next     *)
(* step); no thread is obliged to start a call.                            *)
(***************************************************************************)
LiveInit ==
    /\ BridgeInit
    /\ PeakInit
    /\ VUMeter_new(22)
    /\ calls = 0
    /\ contended \in {"peak", "vu"}

\* the next step of the call t is inside
InCallStep(t) ==
    \/ integrate_loop(t)
    \/ vu_integrate_load(t)
    \/ vu_integrate_cas(t)

\* t starts a call on the contended meter
CallStart(t) ==
    \/ contended = "peak" /\ integrate(t, RaceBatches)
    \/ contended = "peak" /\ read_and_reset(t)
    \/ contended = "vu" /\ vu_integrate(t, RaceBatches)

LiveNext ==
    \/ CallStart("m1") /\ UNCHANGED bookVars
    \/ InCallStep("m1") /\ UNCHANGED bookVars
    \/ calls < MaxCalls /\ CallStart("m2") /\ calls' = calls + 1
                        /\ UNCHANGED <<contended, lossVars>>
    \/ InCallStep("m2") /\ UNCHANGED bookVars

LiveSpec ==
    /\ LiveInit
    /\ [][LiveNext]_vars
    /\ \A t \in MeterThreads : WF_vars(InCallStep(t) /\ UNCHANGED bookVars)

(***************************************************************************)
(* Properties of the bridge.                                               *)
(***************************************************************************)
\* thread t takes the step
Steps(t) == pc'[t] # pc[t]

\* the callbacks that must not end the client
NonFatal == {"thread_init", "freewheel", "xrun"}

\* C1: liveness is sticky.  alive starts true; no step of any callback or of
\* the control thread turns alive from false to true; and once is_alive()
\* has returned false to the control thread, no later call returns true.
C1_LivenessSticky ==
    /\ alive = TRUE
    /\ [][ /\ (~alive => ~alive')
           /\ (obsAlive = <<FALSE>> => obsAlive' = <<FALSE>>) ]_vars

\* C1 witness: is_alive() has returned false, and callbacks are delivered
\* after that.
C1_Witness ==
    /\ obsAlive = <<FALSE>>
    /\ pc[RT] = "done" /\ pc[NOTIF] = "done"

\* C2: a callback_guard invocation that begins when alive is already false
\* runs the closure zero times, returns Quit, and writes neither alive nor
\* next_time, whatever the callback.
C2_DeadGuardSkipsBody ==
    [][ \A t \in HostThreads :
          /\ (pc[t] = "idle" /\ Steps(t) /\ ~alive) =>
                /\ pc'[t] = "done"
                /\ output'[t] = Quit
                /\ ran'[t] = 0
                /\ alive' = alive
                /\ next_time' = next_time
          /\ (pc[t] = "done" /\ ran[t] = 0 /\ Steps(t)) =>
                /\ alive' = alive
                /\ next_time' = next_time ]_vars

\* C2 witness: a process cycle and a notification both began while dead
\* and have returned without running their closure.
C2_Witness ==
    /\ pc[RT] = "done" /\ cb[RT] = "process" /\ ran[RT] = 0
    /\ pc[NOTIF] = "done" /\ ran[NOTIF] = 0

\* C3: when the closure panics, callback_guard still returns a Control,
\* that Control is Quit, and alive is false when it returns: the same
\* outcome as for a closure that returns Quit itself.
C3_PanicContained ==
    \A t \in HostThreads :
        pc[t] = "done" =>
            /\ output[t] \in Control
            /\ (result[t] \in {Panic, Quit} => output[t] = Quit /\ ~alive)

\* C3 witness: a process cycle whose closure panicked has returned.
C3_Witness ==
    /\ pc[RT] = "done" /\ cb[RT] = "process" /\ result[RT] = Panic

\* C4: once alive is false, next_time never changes again.
C4_TimestampFrozenOnceDead ==
    [][ ~alive => next_time' = next_time ]_vars

\* C5: a process cycle that runs while alive has fed its buffer to the
\* peak meter by the time it stamps the cycle's end: the stored peak is
\* then at least the largest magnitude of the buffer.
C5_CycleFeedsMeters ==
    [][ (pc[RT] = "fetched" /\ pc'[RT] = "caught" /\ result'[RT] = Continue)
            => peak_sample' >= batch_max(input) ]_vars

\* C6: next_time is non-decreasing: every store keeps or raises it, every
\* value next_time() returns is at least the value the previous call
\* returned, and at least the value stored at construction.
C6_CycleEndTimeMonotonic ==
    [][ /\ next_time' >= next_time
        /\ (obsTime # <<>> /\ obsTime' # obsTime) => obsTime'[1] >= obsTime[1]
        /\ (obsTime' # <<>>) => obsTime'[1] >= StartTime ]_vars

\* C6 witness: next_time() has returned the end of a cycle later than the
\* first one.
C6_Witness ==
    /\ obsTime # <<>>
    /\ obsTime[1] > StartTime + 1
    /\ alive

\* C7: a shutdown delivered while alive has returned Quit with alive false
\* when it returns, and alive stays false from then on.
C7_ShutdownDrivesDead ==
    /\ [](\A t \in HostThreads :
            (pc[t] = "done" /\ cb[t] = "shutdown" /\ ran[t] = 1) =>
                (output[t] = Quit /\ ~alive))
    /\ [][ \A t \in HostThreads :
             (cb[t] = "shutdown" /\ pc[t] = "done") => ~alive' ]_vars

\* C7 witness: a shutdown that ran its closure has returned.
C7_Witness ==
    pc[NOTIF] = "done" /\ cb[NOTIF] = "shutdown" /\ ran[NOTIF] = 1

\* C8: a buffer_size or sample_rate callback delivered while alive returns
\* Quit, never Continue, with alive false when it returns.
C8_ReconfigurationFatal ==
    \A t \in HostThreads :
        (pc[t] = "done" /\ cb[t] \in {"buffer_size", "sample_rate"}) =>
            (output[t] = Quit /\ ~alive)

\* C8 witness: a sample_rate callback that ran its closure has returned.
C8_Witness ==
    pc[NOTIF] = "done" /\ cb[NOTIF] = "sample_rate" /\ ran[NOTIF] = 1

\* C9: xrun, freewheel and thread_init are non-fatal: no step of theirs
\* writes alive or next_time, each returns Continue once its closure ran,
\* and next_time is written by the closure of process alone.
C9_NonFatalCallbacks ==
    [][ /\ \A t \in HostThreads :
             (Steps(t) /\ (cb[t] \in NonFatal \/ cb'[t] \in NonFatal)) =>
                 /\ alive' = alive
                 /\ next_time' = next_time
        /\ \A t \in HostThreads :
             (cb[t] \in NonFatal /\ pc[t] = "caught" /\ Steps(t)) =>
                 output'[t] = Continue
        /\ (next_time' # next_time) =>
             (cb[RT] = "process" /\ pc[RT] = "fetched" /\ pc'[RT] = "caught")
      ]_vars

\* C9 witness: an xrun and a thread_init have both returned Continue with
\* the client still alive.
C9_Witness ==
    /\ pc[NOTIF] = "done" /\ cb[NOTIF] = "xrun" /\ output[NOTIF] = Continue
    /\ pc[RT] = "done" /\ cb[RT] = "thread_init" /\ output[RT] = Continue
    /\ alive

\* the step is one of the control thread's
ControlStep ==
    \/ ctlpc' # ctlpc \/ obsAlive' # obsAlive \/ obsTime' # obsTime
    \/ polled' # polled

\* C15: the Dead state is reached only from inside a host callback.  The
\* steps of JackInterface::is_alive and JackInterface::next_time change
\* neither alive nor next_time, and alive turns false only in the step in
\* which some thread's callback_guard leaves with Quit.
C15_DeadOnlyFromCallback ==
    [][ /\ ControlStep => alive' = alive /\ next_time' = next_time
        /\ (alive /\ ~alive') =>
             \E t \in HostThreads :
                 /\ pc[t] = "caught" /\ pc'[t] = "done"
                 /\ output'[t] = Quit ]_vars

\* C15 witness: the control thread has read alive (true at the time) and
\* the timestamp, and the client is now dead, a callback having returned
\* Quit.
C15_Witness ==
    /\ obsAlive = <<TRUE>>
    /\ obsTime # <<>>
    /\ ctlpc = "idle"
    /\ ~alive
    /\ \E t \in HostThreads : pc[t] = "done" /\ output[t] = Quit

\* C18: within a process cycle the store of the timestamp is the last
\* write to shared state made by the body.  The body's step before
\* update_time writes neither the timestamp nor alive nor a meter; the
\* step that runs update_time ends the body; and once the body has
\* returned Continue, callback_guard hands Continue to the host without
\* writing alive, the timestamp or a meter.
C18_StampIsLastWrite ==
    [][ (cb[RT] = "process" /\ Steps(RT)) =>
          /\ pc[RT] = "body" =>
               /\ <<alive, next_time>>' = <<alive, next_time>>
               /\ <<peak_sample, vu_sample, vu_weight>>' =
                    <<peak_sample, vu_sample, vu_weight>>
          /\ pc[RT] = "fetched" =>
               /\ pc'[RT] = "caught"
               /\ alive' = alive
               /\ <<peak_sample, vu_sample, vu_weight>>' =
                    <<peak_sample, vu_sample, vu_weight>>
          /\ (pc[RT] = "caught" /\ result[RT] = Continue) =>
               /\ output'[RT] = Continue
               /\ <<alive, next_time>>' = <<alive, next_time>>
               /\ <<peak_sample, vu_sample, vu_weight>>' =
                    <<peak_sample, vu_sample, vu_weight>> ]_vars

\* C18 witness: a cycle has stored its end time and returned Continue to
\* the host.
C18_Witness ==
    /\ pc[RT] = "done" /\ cb[RT] = "process"
    /\ result[RT] = Continue /\ output[RT] = Continue
    /\ next_time = scope.times.next_usecs
    /\ next_time > StartTime

\* C21: postcondition of callback_guard, in every interleaving.  The
\* closure runs at most once per invocation.  When the guard has returned
\* Quit, alive is false.  When it has returned Continue, the closure ran
\* exactly once and returned Continue, alive was true when the invocation
\* passed the liveness check, and no step of the invocation stored to
\* alive (the only step of an invocation that changes alive is the exit
\* with Quit).
C21_GuardPostcondition ==
    /\ [](\A t \in HostThreads :
            /\ ran[t] <= 1
            /\ (pc[t] = "done" /\ output[t] = Quit) => ~alive
            /\ (pc[t] = "done" /\ output[t] = Continue) =>
                  ran[t] = 1 /\ result[t] = Continue)
    /\ [][ \A t \in HostThreads :
             /\ (pc[t] = "idle" /\ Steps(t) /\ pc'[t] # "done") => alive
             /\ (Steps(t) /\ alive' # alive) =>
                  pc[t] = "caught" /\ output'[t] = Quit ]_vars

\* C21 witness: a process cycle has returned Continue, its closure having
\* run once, although alive is false by now: a shutdown delivered on the
\* other thread during the cycle has returned Quit.
C21_Witness ==
    /\ pc[RT] = "done" /\ cb[RT] = "process"
    /\ output[RT] = Continue /\ ran[RT] = 1
    /\ pc[NOTIF] = "done" /\ cb[NOTIF] = "shutdown" /\ output[NOTIF] = Quit
    /\ ~alive

(***************************************************************************)
(* Properties of the peak meter.                                           *)
(***************************************************************************)
\* C10: with the integrate calls made one after the other, read_and_reset
\* returns 20 log10 of the largest magnitude over all samples integrated
\* since construction or the last read_and_reset (minus infinity if there
\* is none or they are all zero) and leaves the stored peak at 0; a second
\* read_and_reset with no integrate in between returns minus infinity.
C10_PeakReadAndReset ==
    [][ \A t \in MeterThreads :
          (ret'[t] # <<>> /\ (ret[t] = <<>> \/ readsInRow' # readsInRow)) =>
              /\ ret'[t] = <<decibel(fedMax)>>
              /\ peak_sample' = 0
              /\ (readsInRow' = 2 => ret'[t] = <<NegInf>>) ]_vars

\* C10 witness: read_and_reset has returned the level of a peak that was
\* integrated before a smaller sample.
C10_Witness ==
    /\ ret["m1"] = <<decibel(MaxAmp)>>
    /\ max["m1"] < MaxAmp
    /\ readsInRow = 1

\* C10 witness of the second read: two calls in a row, the second one
\* returning minus infinity.
C10_SecondReadWitness ==
    /\ readsInRow = 2
    /\ ret["m1"] = <<NegInf>>
    /\ max["m1"] = MaxAmp

\* the step is one turn of t's compare-and-swap loop in
\* SamplePeakMeter::integrate
PeakLoopStep(t) ==
    /\ mpc[t] = "loop"
    /\ (mpc'[t] # mpc[t] \/ old_max'[t] # old_max[t])

\* C11: when several threads call SamplePeakMeter::integrate concurrently
\* and nobody resets the meter, then once all the calls have returned the
\* stored peak is the largest magnitude over all the batches submitted,
\* whatever the interleaving of the loads and compare-and-swaps.
C11_ConcurrentPeakIsMaximum ==
    (\A t \in MeterThreads : mpc[t] = "idle") => peak_sample = fedMax

\* C11 witness: both threads have returned; m1 installed 1 over the initial
\* 0, m2 installed 2 over m1's value, and the stored peak is 2.
C11_Witness ==
    /\ \A t \in MeterThreads : mpc[t] = "idle"
    /\ max["m1"] = 1 /\ old_max["m1"] = 0
    /\ max["m2"] = 2 /\ old_max["m2"] = 1
    /\ peak_sample = 2 /\ fedMax = 2

(***************************************************************************)
(* Properties of the loudness meter.                                       *)
(***************************************************************************)
\* the step is the compare_exchange of t's VUMeter::integrate call
VuCasStep(t) == mpc[t] = "vu_cas" /\ mpc'[t] # "vu_cas"

\* C12: VUMeter::integrate is atomic with respect to concurrent integrate
\* calls.  vu_sample changes only in a successful compare_exchange, and the
\* value that compare_exchange installs is the fold of the caller's whole
\* batch, with the one weight the caller loaded for this attempt, started
\* from the very value the compare_exchange replaces; a failed
\* compare_exchange installs nothing and the call goes round the loop.
\* Every change of vu_sample is therefore one batch applied to the current
\* level, and the final level is that of the batches applied one after
\* another in the order of their successful compare_exchanges.
C12_VuIntegrateAtomic ==
    [][ /\ \A t \in MeterThreads :
             VuCasStep(t) =>
               IF mpc'[t] = "idle"
               THEN vu_sample' =
                      vu_fold(vu_sample, data_iter[t], weight[t])
               ELSE vu_sample' = vu_sample /\ old_vu'[t] = vu_sample
        /\ vu_sample' # vu_sample =>
             \E t \in MeterThreads : VuCasStep(t) /\ mpc'[t] = "idle" ]_vars

\* C12 witness: m1 has returned after installing the fold of a two-sample
\* batch on top of the level another call had installed (a level the fold
\* from silence would not give), while m2 is inside a call whose
\* compare_exchange is bound to fail: the level it loaded is gone.
C12_Witness ==
    /\ mpc["m1"] = "idle"
    /\ Len(data_iter["m1"]) = 2
    /\ old_vu["m1"] # Num(0)
    /\ vu_sample = vu_fold(old_vu["m1"], data_iter["m1"], weight["m1"])
    /\ vu_sample # vu_fold(Num(0), data_iter["m1"], weight["m1"])
    /\ mpc["m2"] = "vu_cas"
    /\ old_vu["m2"] # vu_sample

\* C13: update_sampling_rate changes only the stored decay weight.  The
\* step that stores a new weight leaves the smoothed level as it is (no
\* rescaling) and touches no call in flight: a call that has already loaded
\* the weight for its current attempt keeps that snapshot and installs the
\* fold computed with it; every load made after the store reads the new
\* weight.
C13_UpdateChangesOnlyWeight ==
    [][ /\ vu_weight' # vu_weight =>
             /\ vu_sample' = vu_sample
             /\ <<mpc, data_iter, old_vu, weight>>' =
                  <<mpc, data_iter, old_vu, weight>>
             /\ <<peak_sample, ret>>' = <<peak_sample, ret>>
        /\ \A t \in MeterThreads :
             /\ (mpc[t] = "vu_loop" /\ mpc'[t] = "vu_cas") =>
                  weight'[t] = vu_weight
             /\ (mpc[t] = "vu_cas" /\ mpc'[t] = "idle") =>
                  vu_sample' = vu_fold(old_vu[t], data_iter[t], weight[t]) ]_vars

\* C13 witness: the rate was updated while m1 was between its load of the
\* weight and its compare_exchange; m1 has installed the level computed
\* with the weight it had loaded, which is not the level the new weight
\* gives.
C13_Witness ==
    /\ mpc["m1"] = "idle"
    /\ weight["m1"] # vu_weight
    /\ data_iter["m1"] # <<>>
    /\ vu_sample = vu_fold(old_vu["m1"], data_iter["m1"], weight["m1"])
    /\ vu_sample # vu_fold(old_vu["m1"], data_iter["m1"], vu_weight)
    /\ ~vu_sample.nan

(***************************************************************************)
(* Termination of the meters' calls.                                       *)
(***************************************************************************)
\* C14: under fair scheduling every integrate call of either meter
\* eventually returns, even while another thread keeps calling the same
\* meter.
C14_EveryCallReturns ==
    \A t \in MeterThreads : (mpc[t] # "idle") ~> (mpc[t] = "idle")

\* C14, amended: under fair scheduling an integrate call of either meter
\* eventually returns provided the other threads start only finitely many
\* calls on the same meter (m1, whose only competitor m2 makes at most
\* MaxCalls calls): the compare-and-swap loops are lock-free, a retry
\* happens only after another thread's write to the meter.
C14_CallReturnsOnceOthersStop ==
    (mpc["m1"] # "idle") ~> (mpc["m1"] = "idle")

\* C14 witness, loudness meter: m2 has made all its calls and m1 is inside
\* a call whose compare_exchange is bound to fail, the level it loaded
\* having been replaced by m2.
C14_Witness ==
    /\ contended = "vu"
    /\ calls = MaxCalls
    /\ mpc["m2"] = "idle"
    /\ mpc["m1"] = "vu_cas"
    /\ old_vu["m1"] # vu_sample

\* C14 witness, peak meter: the same with m1 inside the loop of the peak
\* meter's integrate, after a read_and_reset by m2.
C14_PeakWitness ==
    /\ contended = "peak"
    /\ calls = MaxCalls
    /\ mpc["m2"] = "idle" /\ ret["m2"] # <<>>
    /\ mpc["m1"] = "loop"
    /\ max["m1"] > old_max["m1"]
    /\ old_max["m1"] # peak_sample

\* C16: a loudness meter that has only ever been fed samples equal to 0.0
\* (any number of batches, of any length, at any of the sampling rates)
\* keeps its smoothed value at exactly 0, and every read() made so far has
\* returned minus infinity.
C16_SilenceStaysSilent ==
    ~fedNonZero =>
        /\ vu_sample = Num(0)
        /\ \A t \in MeterThreads : ret[t] # <<>> => ret[t] = <<NegInf>>

\* C16 witness: a batch of MaxBatch zero samples has been integrated at
\* 48000 Hz, nothing else was ever fed, and read() has returned minus
\* infinity.
C16_Witness ==
    /\ ~fedNonZero
    /\ mpc["m1"] = "idle"
    /\ data_iter["m1"] = [i \in 1..MaxBatch |-> Num(0)]
    /\ weight["m1"] = vu_weight_of(48000)
    /\ ret["m1"] = <<NegInf>>

\* C17: the decay weight vu_weight computes is strictly between 0 and 1
\* for every sampling rate > 0, and does not decrease when the rate grows.
\* Stated on the stored weight, which VUMeter::new and
\* update_sampling_rate set to vu_weight(rate).
C17_WeightStrictlyInside ==
    /\ 0 < vu_weight /\ vu_weight < F32One
    /\ \A r1, r2 \in Rates :
         r1 < r2 => vu_weight_of(r1) <= vu_weight_of(r2)

\* C20: the smoothed value is a number >= 0 in every reachable state, for
\* every sequence and interleaving of integrate and update_sampling_rate
\* calls.
C20_SmoothedNonNegative == ~vu_sample.nan /\ vu_sample.v >= 0

\* C19: in SamplePeakMeter::integrate every turn of the compare-and-swap
\* loop either installs the batch maximum or finds a stored value at least
\* as large as the batch maximum, whatever the other threads' integrate and
\* read_and_reset calls do.
C19_RetryInstallsOrFindsLarger ==
    [][ \A t \in MeterThreads :
          PeakLoopStep(t) =>
            \/ peak_sample' = max[t] /\ mpc'[t] = "idle"
            \/ old_max'[t] >= max[t] ]_vars

\* C19, amended: every turn of the loop either installs the batch maximum
\* over the value last loaded and returns, or finds that the stored value
\* is no longer the one last loaded and carries on with the value found
\* (which may be smaller than the batch maximum, and after a read_and_reset
\* smaller than the value last loaded); the loop exits only after a
\* successful install or with a loaded value that is not smaller than the
\* batch maximum.
C19_LoopTurns ==
    [][ \A t \in MeterThreads :
          PeakLoopStep(t) =>
            \/ /\ max[t] > old_max[t] /\ peak_sample = old_max[t]
               /\ peak_sample' = max[t]
               /\ mpc'[t] = "idle"
            \/ /\ max[t] > old_max[t] /\ peak_sample # old_max[t]
               /\ old_max'[t] = peak_sample
               /\ peak_sample' = peak_sample
               /\ mpc'[t] = "loop"
            \/ /\ old_max[t] >= max[t]
               /\ peak_sample' = peak_sample
               /\ mpc'[t] = "idle" ]_vars

\* C19 witness: m1, with batch maximum 2, is at a turn of the loop whose
\* compare_exchange fails and finds a value smaller than its batch maximum
\* and smaller than the value it had loaded: it loaded the 1 that m2 had
\* installed, and m2 has reset the meter since (its read_and_reset returned
\* the level of 1).
C19_Witness ==
    /\ mpc["m1"] = "loop"
    /\ max["m1"] = 2
    /\ old_max["m1"] = 1
    /\ peak_sample = 0
    /\ mpc["m2"] = "idle"
    /\ max["m2"] = 1 /\ old_max["m2"] = 0
    /\ ret["m2"] = <<decibel(1)>>

\* C22: the peak meter loses no batch across resets.  With integrate and
\* read_and_reset calls running concurrently, once all calls have returned
\* the highest of the levels returned by read_and_reset and of the level
\* of the stored peak is the level of the largest magnitude over all the
\* batches integrated; and the stored peak is >= 0 in every state.
C22_NoBatchLostAcrossResets ==
    /\ peak_sample >= 0
    /\ (\A t \in MeterThreads : mpc[t] = "idle") =>
          DbMax(readMax, decibel(peak_sample)) = decibel(fedAll)

\* C22 witness: all calls have returned; m1's batch (maximum 1) was never
\* stored, m1 having found the 2 of m2's batch in the meter; that 2 has
\* been returned by a read_and_reset since, and the stored peak is 0.
C22_Witness ==
    /\ \A t \in MeterThreads : mpc[t] = "idle"
    /\ max["m1"] = 1 /\ old_max["m1"] = 2
    /\ max["m2"] = 2 /\ old_max["m2"] = 0
    /\ peak_sample = 0
    /\ readMax = decibel(2)
    /\ fedAll = 2

\* C23: a control thread that follows the polling pattern of the main loop
\* (is_alive(), then next_time() only if it returned true) never trips the
\* liveness debug assertion of next_time(), whatever the host callbacks do
\* between the two calls: a next_time() entered right after an is_alive()
\* that returned true gets past its debug_assert!.
C23_PollingNeverTripsAssertion ==
    [][ (polled /\ ctlpc = "idle" /\ ctlpc' # "idle") =>
            ctlpc' # "panicked" ]_vars

====
